---- MODULE Spec2Model ----
(***************************************************************************)
(* Model of WorkoutMonitor (workout_monitor.py): the per-person            *)
(* repetition counter driven by one start_counting call per video frame.   *)
(*                                                                         *)
(* A detection (one person's keypoint set in one frame) is represented by  *)
(* the joint angle that Annotator.estimate_pose_angle returns for the      *)
(* three configured keypoints; the library computing it is outside the     *)
(* repository.  Angles and thresholds are degrees, written as integers.    *)
(***************************************************************************)
EXTENDS Integers, Sequences, FiniteSets, TLC

\* ---- bounds of the model ------------------------------------------------
MaxPeople == 2      \* most detections a single frame reports
MaxCount == 2       \* start_counting is not explored past this count

\* ---- program constants --------------------------------------------------
DefaultUpAngle == 145
DefaultDownAngle == 90
InitialCount == 0
InitialAngle == 0
InitialStage == "-"

RecognizedTypes == {"pushup", "pullup", "abworkout", "squat"}
AscentTypes == {"abworkout", "pullup"}
DescentTypes == {"pushup", "squat"}

\* ---- inputs -------------------------------------------------------------
\* pose_type values a caller may pass: the four recognized ones and one other.
PoseTypes == RecognizedTypes \cup {"plank"}
\* (up, down) threshold pairs: the defaults, an inverted pair, an equal pair.
ThresholdPairs == {<<DefaultUpAngle, DefaultDownAngle>>,
                   <<DefaultDownAngle, DefaultUpAngle>>,
                   <<120, 120>>}
\* kpts_to_check values: main.py's and the module's own example.
KptsChoices == {<<6, 8, 10>>}
\* joint angles a detection can show: below, at and above each threshold.
Angles == {80, 90, 120, 145, 170}
\* angles of the people of a frame with several detections: clearly bent or
\* clearly stretched
CrowdAngles == {80, 170}
\* a frame's detections, in the pose model's natural order
Frames == [1..0 -> Angles] \cup [1..1 -> Angles]
          \cup UNION {[1..n -> CrowdAngles] : n \in 2..MaxPeople}

VARIABLES
    pose_type,        \* self.pose_type
    poseup_angle,     \* self.poseup_angle
    posedown_angle,   \* self.posedown_angle
    kpts_to_check,    \* self.kpts_to_check
    count,            \* self.count : list of int
    angle,            \* self.angle : list of number
    stage,            \* self.stage : list of "up" | "down" | "-"
    results,          \* history: detections passed to the latest call
    maxDet,           \* history: most detections any one call has reported
    phase,            \* history, per slot: progress through above+ mid* below+
                      \*   (recorded when up >= down)
    everBelow,        \* history, per slot: some fed angle was below down
    full,             \* history, per slot: completed full stage cycles
                      \*   (recorded when up >= down)
    trans,            \* history, per slot: entries into the counted stage
                      \*   (recorded when up >= down)
    since,            \* history, per slot: what followed the last increment
                      \*   (recorded when up >= down)
    scen              \* history: frames of the Scenario matched so far, or -1

vars == <<pose_type, poseup_angle, posedown_angle, kpts_to_check,
          count, angle, stage, results, maxDet, phase, everBelow, full,
          trans, since, scen>>

config == <<pose_type, poseup_angle, posedown_angle, kpts_to_check>>

\* ---- helpers ------------------------------------------------------------
\* variant of Reversed: the detections are taken in their natural order
ReversedNot(s) == s

\* `reversed(self.keypoints)`
Reversed(s) == [i \in 1..Len(s) |-> s[Len(s) + 1 - i]]

\* Annotator.estimate_pose_angle on the three configured keypoints of k
EstimatePoseAngle(k) == k

\* `if not len(results[0])`
NoDetections(res) == Len(res) = 0

\* `lst += [d] * new_human`
Extend(lst, new_human, d) == lst \o [i \in 1..new_human |-> d]

\* variant of Grown: the lists are assigned instead of extended
GrownReset(lst, res, d) ==
    IF Len(res) > Len(count)
    THEN [i \in 1..Len(res) |-> d]
    ELSE lst

\* variant of Grown: the lists are resized to the frame's detections
GrownResize(lst, res, d) ==
    IF Len(res) > Len(count)
    THEN Extend(lst, Len(res) - Len(count), d)
    ELSE SubSeq(lst, 1, Len(res))

\* variant of Grown: the new entries are put in front of the existing ones
GrownInFront(lst, res, d) ==
    IF Len(res) > Len(count)
    THEN [i \in 1..(Len(res) - Len(count)) |-> d] \o lst
    ELSE lst

\* the growth block: all three lists grow by len(results[0]) - len(self.count)
Grown(lst, res, d) ==
    IF Len(res) > Len(count)
    THEN Extend(lst, Len(res) - Len(count), d)
    ELSE lst

\* variant of AboveUp: non-strict comparison
AboveUpOrEqual(a) == a >= poseup_angle

\* `self.angle[ind] > self.poseup_angle`
AboveUp(a) == a > poseup_angle

\* variant of BelowDown: comparison turned around
BelowDownFlipped(a) == a > posedown_angle

\* `self.angle[ind] < self.posedown_angle`
BelowDown(a) == a < posedown_angle

\* variant of AscentRule: the second test does not look at the stage
AscentRuleNoStageTest(a, s, c) ==
    LET s1 == IF AboveUp(a) THEN "down" ELSE s
    IN  IF BelowDown(a)
        THEN [stage |-> "up", count |-> c + 1]
        ELSE [stage |-> s1, count |-> c]

\* pullup / abworkout branch
AscentRule(a, s, c) ==
    LET s1 == IF AboveUp(a) THEN "down" ELSE s
    IN  IF BelowDown(a) /\ s1 = "down"
        THEN [stage |-> "up", count |-> c + 1]
        ELSE [stage |-> s1, count |-> c]

\* variant of DescentRule: the stage labels of the other family
DescentRuleSwapped(a, s, c) ==
    LET s1 == IF AboveUp(a) THEN "down" ELSE s
    IN  IF BelowDown(a) /\ s1 = "down"
        THEN [stage |-> "up", count |-> c + 1]
        ELSE [stage |-> s1, count |-> c]

\* variant of DescentRule: the count is incremented when the stage returns
\* to "up", not when it becomes "down"
DescentRuleCountOnReturn(a, s, c) ==
    IF AboveUp(a)
    THEN [stage |-> "up", count |-> IF s = "down" THEN c + 1 ELSE c]
    ELSE IF BelowDown(a) /\ s = "up"
    THEN [stage |-> "down", count |-> c]
    ELSE [stage |-> s, count |-> c]

\* variant of DescentRule: a reached "down" stage that sees an angle between
\* the thresholds is shown as unknown again
DescentRuleForgets(a, s, c) ==
    LET s1 == IF AboveUp(a) THEN "up" ELSE s
    IN  IF BelowDown(a) /\ s1 = "up"
        THEN [stage |-> "down", count |-> c + 1]
        ELSE IF ~AboveUp(a) /\ ~BelowDown(a) /\ s1 = "down"
        THEN [stage |-> InitialStage, count |-> c]
        ELSE [stage |-> s1, count |-> c]

\* variant of DescentRule: the second test accepts every stage but "down"
DescentRuleNotDown(a, s, c) ==
    LET s1 == IF AboveUp(a) THEN "up" ELSE s
    IN  IF BelowDown(a) /\ s1 # "down"
        THEN [stage |-> "down", count |-> c + 1]
        ELSE [stage |-> s1, count |-> c]

\* pushup / squat branch
DescentRule(a, s, c) ==
    LET s1 == IF AboveUp(a) THEN "up" ELSE s
    IN  IF BelowDown(a) /\ s1 = "up"
        THEN [stage |-> "down", count |-> c + 1]
        ELSE [stage |-> s1, count |-> c]

\* variant of UpdateSlot: no outer pose_type test, `else` for `elif`
UpdateSlotElse(k, a0, s0, c0) ==
    LET a == EstimatePoseAngle(k)
        r == IF pose_type \in AscentTypes THEN AscentRule(a, s0, c0)
             ELSE DescentRule(a, s0, c0)
    IN  [angle |-> a, stage |-> r.stage, count |-> r.count]

\* variant of UpdateSlot: the angle is estimated before the pose_type test
UpdateSlotAngleFirst(k, a0, s0, c0) ==
    LET a == EstimatePoseAngle(k)
        r == IF pose_type \in AscentTypes THEN AscentRule(a, s0, c0)
             ELSE IF pose_type \in DescentTypes THEN DescentRule(a, s0, c0)
             ELSE [stage |-> s0, count |-> c0]
    IN  [angle |-> a, stage |-> r.stage, count |-> r.count]

\* body of the loop for one (slot, detection) pair
UpdateSlot(k, a0, s0, c0) ==
    IF pose_type \in RecognizedTypes
    THEN LET a == EstimatePoseAngle(k)
             r == IF pose_type \in AscentTypes THEN AscentRule(a, s0, c0)
                  ELSE IF pose_type \in DescentTypes THEN DescentRule(a, s0, c0)
                  ELSE [stage |-> s0, count |-> c0]
         IN  [angle |-> a, stage |-> r.stage, count |-> r.count]
    ELSE [angle |-> a0, stage |-> s0, count |-> c0]

\* variant of NextSlots: a frame without detections clears the slots
NextSlotsClear(res) ==
    IF NoDetections(res)
    THEN [count |-> <<>>, angle |-> <<>>, stage |-> <<>>]
    ELSE LET gc == Grown(count, res, InitialCount)
             ga == Grown(angle, res, InitialAngle)
             gs == Grown(stage, res, InitialStage)
             kp == Reversed(res)
             upd(i) == UpdateSlot(kp[i], ga[i], gs[i], gc[i])
         IN  [count |-> [i \in 1..Len(gc) |->
                            IF i <= Len(kp) THEN upd(i).count ELSE gc[i]],
              angle |-> [i \in 1..Len(ga) |->
                            IF i <= Len(kp) THEN upd(i).angle ELSE ga[i]],
              stage |-> [i \in 1..Len(gs) |->
                            IF i <= Len(kp) THEN upd(i).stage ELSE gs[i]]]

\* variant of NextSlots: the angle list grows by the number of detections,
\* not by the number of new people
NextSlotsAngleByDetections(res) ==
    IF NoDetections(res)
    THEN [count |-> count, angle |-> angle, stage |-> stage]
    ELSE LET gc == Grown(count, res, InitialCount)
             ga == IF Len(res) > Len(count)
                   THEN Extend(angle, Len(res), InitialAngle)
                   ELSE angle
             gs == Grown(stage, res, InitialStage)
             kp == Reversed(res)
             upd(i) == UpdateSlot(kp[i], ga[i], gs[i], gc[i])
         IN  [count |-> [i \in 1..Len(gc) |->
                            IF i <= Len(kp) THEN upd(i).count ELSE gc[i]],
              angle |-> [i \in 1..Len(ga) |->
                            IF i <= Len(kp) THEN upd(i).angle ELSE ga[i]],
              stage |-> [i \in 1..Len(gs) |->
                            IF i <= Len(kp) THEN upd(i).stage ELSE gs[i]]]

\* the three lists after a whole start_counting(im0, results) call
NextSlots(res) ==
    IF NoDetections(res)
    THEN [count |-> count, angle |-> angle, stage |-> stage]
    ELSE LET gc == Grown(count, res, InitialCount)
             ga == Grown(angle, res, InitialAngle)
             gs == Grown(stage, res, InitialStage)
             kp == Reversed(res)
             upd(i) == UpdateSlot(kp[i], ga[i], gs[i], gc[i])
         IN  [count |-> [i \in 1..Len(gc) |->
                            IF i <= Len(kp) THEN upd(i).count ELSE gc[i]],
              angle |-> [i \in 1..Len(ga) |->
                            IF i <= Len(kp) THEN upd(i).angle ELSE ga[i]],
              stage |-> [i \in 1..Len(gs) |->
                            IF i <= Len(kp) THEN upd(i).stage ELSE gs[i]]]

\* ---- history bookkeeping (observes the calls, never read by the code) ---
\* the stage whose entry increments the count / the stage a cycle starts in
CountedStage == IF pose_type \in DescentTypes THEN "down" ELSE "up"
StartStage == IF pose_type \in DescentTypes THEN "up" ELSE "down"

\* the thresholds are in their natural order
Ordered == poseup_angle >= posedown_angle

\* recorded for thresholds in their natural order only
PhaseNext(p, a) ==
    IF ~Ordered THEN p
    ELSE IF a > poseup_angle
    THEN IF p \in {"fresh", "above"} THEN "above" ELSE "other"
    ELSE IF a < posedown_angle
    THEN IF p \in {"above", "mid"} THEN "below"
         ELSE IF p \in {"below", "below2"} THEN "below2"
         ELSE "other"
    ELSE IF a > posedown_angle /\ a < poseup_angle
    THEN IF p \in {"above", "mid"} THEN "mid" ELSE "other"
    ELSE "other"

Scenario == <<170, 170, 80, 80, 170>>

ScenNext(res) ==
    IF scen >= 0 /\ scen < Len(Scenario) /\ Len(res) = 1
       /\ res[1] = Scenario[scen + 1]
    THEN scen + 1
    ELSE -1

\* "counted" after an update that incremented the count, "rearmed" once an
\* update with an angle above up has followed it; recorded for thresholds in
\* their natural order only
SinceNext(p, a, incremented) ==
    IF ~Ordered THEN p
    ELSE IF incremented THEN "counted"
    ELSE IF p = "counted" /\ a > poseup_angle THEN "rearmed"
    ELSE p

\* variant of ConfigKept: a call restores the default thresholds
ConfigDefaultsRestored ==
    /\ pose_type' = pose_type
    /\ kpts_to_check' = kpts_to_check
    /\ poseup_angle' = DefaultUpAngle
    /\ posedown_angle' = DefaultDownAngle

\* start_counting assigns none of the attributes set from the constructor's
\* exercise arguments
ConfigKept == UNCHANGED config

\* ---- the state machine --------------------------------------------------
Init ==
    /\ pose_type \in PoseTypes
    /\ \E th \in ThresholdPairs :
          /\ poseup_angle = th[1]
          /\ posedown_angle = th[2]
    /\ kpts_to_check \in KptsChoices
    /\ count = <<>>
    /\ angle = <<>>
    /\ stage = <<>>
    /\ results = <<>>
    /\ maxDet = 0
    /\ phase = <<>>
    /\ everBelow = <<>>
    /\ full = <<>>
    /\ trans = <<>>
    /\ since = <<>>
    /\ scen = 0

StartCounting(res) ==
    \E new \in {NextSlots(res)} :
      \E kp \in {Reversed(res)} :
        LET n == Len(res)
            len == Len(new.count)
        IN  /\ \A i \in 1..len : new.count[i] <= MaxCount
            /\ count' = new.count
            /\ angle' = new.angle
            /\ stage' = new.stage
            /\ results' = res
            /\ maxDet' = IF n > maxDet THEN n ELSE maxDet
            /\ phase' = [i \in 1..len |->
                  IF i <= n
                  THEN PhaseNext(IF i <= Len(phase) THEN phase[i] ELSE "fresh",
                                 kp[i])
                  ELSE phase[i]]
            /\ everBelow' = [i \in 1..len |->
                  IF i <= n
                  THEN (i <= Len(everBelow) /\ everBelow[i])
                       \/ kp[i] < posedown_angle
                  ELSE everBelow[i]]
            /\ full' = [i \in 1..len |->
                  LET f == IF i <= Len(full) THEN full[i] ELSE 0
                  IN  IF /\ Ordered
                         /\ i <= n
                         /\ i <= Len(stage)
                         /\ stage[i] = CountedStage
                         /\ new.stage[i] = StartStage
                      THEN f + 1 ELSE f]
            /\ trans' = [i \in 1..len |->
                  LET t == IF i <= Len(trans) THEN trans[i] ELSE 0
                      s0 == IF i <= Len(stage) THEN stage[i] ELSE InitialStage
                  IN  IF /\ Ordered
                         /\ i <= n
                         /\ s0 = StartStage
                         /\ new.stage[i] = CountedStage
                      THEN t + 1 ELSE t]
            /\ since' = [i \in 1..len |->
                  LET c0 == IF i <= Len(count) THEN count[i] ELSE InitialCount
                      p == IF i <= Len(since) THEN since[i] ELSE "fresh"
                  IN  IF i <= n THEN SinceNext(p, kp[i], new.count[i] > c0)
                      ELSE p]
            /\ scen' = ScenNext(res)
            /\ ConfigKept

Next == \E res \in Frames : StartCounting(res)

Spec == Init /\ [][Next]_vars

\* ---- what a step did to slot i ----------------------------------------
\* stage and count of slot i before the step (the defaults for a slot the
\* step creates), and the angle the step fed to slot i
OldStage(i) == IF i <= Len(stage) THEN stage[i] ELSE InitialStage
OldCount(i) == IF i <= Len(count) THEN count[i] ELSE InitialCount
FedAngle(res, i) == EstimatePoseAngle(res[Len(res) + 1 - i])

\* ---- C1 -----------------------------------------------------------------
\* C1: in every call the count of every existing slot stays or grows, no
\* slot disappears, and a slot the call creates starts from 0: after the
\* call its count is 0, or 1 when that same call already made it enter the
\* counted stage.
C1_Step ==
    /\ Len(count') >= Len(count)
    /\ \A i \in 1..Len(count) : count'[i] >= count[i]
    /\ \A i \in (Len(count) + 1)..Len(count') :
          count'[i] = IF pose_type \in RecognizedTypes
                         /\ stage'[i] = CountedStage
                      THEN 1 ELSE 0

C1_Monotonic == [][C1_Step]_vars

C1_Witness ==
    /\ Len(count) = 2
    /\ count[1] = 2
    /\ count[2] = 0
    /\ Len(results) = 2

\* ---- C2 -----------------------------------------------------------------
\* C2: pullup/abworkout with up >= down: a fresh slot fed one or more
\* angles above up has stage "down" and count 0, also after angles strictly
\* between the thresholds; after the following one or more angles below
\* down it has stage "up" and count exactly 1.
C2_SingleIncrement ==
    (pose_type \in AscentTypes /\ Ordered) =>
        \A i \in 1..Len(count) :
            /\ phase[i] \in {"above", "mid"} =>
                   (stage[i] = "down" /\ count[i] = 0)
            /\ phase[i] \in {"below", "below2"} =>
                   (stage[i] = "up" /\ count[i] = 1)

C2_Witness ==
    /\ pose_type = "pullup"
    /\ poseup_angle = DefaultUpAngle
    /\ posedown_angle = DefaultDownAngle
    /\ Len(count) >= 1
    /\ phase[1] = "below2"
    /\ count[1] = 1

\* ---- C3 -----------------------------------------------------------------
ScenarioStages == <<"up", "up", "down", "down", "up">>

\* C3: pushup/squat: an update with an angle above up sets the stage to
\* "up"; an angle below down while the stage is then "up" sets it to "down"
\* and adds one to the count; anything else leaves stage and count alone;
\* slots the frame does not reach keep stage and count.  With up = 145 and
\* down = 90 one person fed 170, 170, 80, 80, 170 shows the stages up, up,
\* down, down, up and the count becomes 1 on the third frame and stays 1.
C3_Step ==
    pose_type \in DescentTypes =>
        \A i \in 1..Len(count') :
            IF i <= Len(results')
            THEN LET a == FedAngle(results', i)
                     s1 == IF a > poseup_angle THEN "up" ELSE OldStage(i)
                 IN  IF a < posedown_angle /\ s1 = "up"
                     THEN /\ stage'[i] = "down"
                          /\ count'[i] = OldCount(i) + 1
                     ELSE /\ stage'[i] = s1
                          /\ count'[i] = OldCount(i)
            ELSE /\ stage'[i] = OldStage(i)
                 /\ count'[i] = OldCount(i)

C3_Scenario ==
    (/\ pose_type = "pushup"
     /\ poseup_angle = DefaultUpAngle
     /\ posedown_angle = DefaultDownAngle
     /\ scen >= 1) =>
        /\ Len(stage) = 1
        /\ stage[1] = ScenarioStages[scen]
        /\ count[1] = IF scen >= 3 THEN 1 ELSE 0

C3_Family == [][C3_Step]_vars /\ []C3_Scenario

C3_Witness ==
    /\ pose_type = "pushup"
    /\ poseup_angle = DefaultUpAngle
    /\ posedown_angle = DefaultDownAngle
    /\ scen = Len(Scenario)
    /\ count = <<1>>
    /\ stage = <<"up">>

\* ---- C4 -----------------------------------------------------------------
\* C4 as stated: the count of a slot is the number of full cycles its stage
\* has completed; a cycle that has not returned to its first stage has
\* added nothing.
C4_CountIsFullCycles ==
    pose_type \in RecognizedTypes =>
        \A i \in 1..Len(count) : count[i] = full[i]

\* C4 amended: with up >= down the count is added when the stage enters the
\* counted stage in the middle of the cycle: it equals the number of
\* completed full cycles, plus one while the slot is in the counted stage
\* of a cycle that has not yet returned to its first stage.
C4_CountAtMidCycle ==
    (pose_type \in RecognizedTypes /\ Ordered) =>
        \A i \in 1..Len(count) :
            count[i] = full[i] + (IF stage[i] = CountedStage THEN 1 ELSE 0)

C4_Witness ==
    /\ pose_type \in RecognizedTypes
    /\ Ordered
    /\ \E i \in 1..Len(count) :
          /\ full[i] = 1
          /\ stage[i] = CountedStage
          /\ count[i] = 2

\* ---- C5 -----------------------------------------------------------------
\* C5: a slot of a recognized exercise type that has never been fed an
\* angle below the down threshold has count 0.
C5_NoIncrementWithoutDescent ==
    pose_type \in RecognizedTypes =>
        \A i \in 1..Len(count) : ~everBelow[i] => count[i] = 0

C5_Witness ==
    /\ pose_type \in RecognizedTypes
    /\ poseup_angle = DefaultUpAngle
    /\ posedown_angle = DefaultDownAngle
    /\ \E i \in 1..Len(count) :
          /\ ~everBelow[i]
          /\ stage[i] # InitialStage
          /\ angle[i] = 120
          /\ count[i] = 0

\* ---- C6 -----------------------------------------------------------------
\* C6 as stated: an update whose angle equals the up or the down threshold
\* changes neither stage nor count of the slot.
C6_EqualStep ==
    \A i \in 1..Len(results') :
        (FedAngle(results', i) = poseup_angle
           \/ FedAngle(results', i) = posedown_angle) =>
            (stage'[i] = OldStage(i) /\ count'[i] = OldCount(i))

C6_EqualNeverTransitions == [][C6_EqualStep]_vars

\* C6 amended: when the up threshold is not below the down threshold, an
\* update whose angle equals the up or the down threshold changes neither
\* stage nor count of the slot.
C6_EqualNeverTransitionsOrdered == [][Ordered => C6_EqualStep]_vars

C6_Witness ==
    /\ pose_type = "pushup"
    /\ poseup_angle = DefaultUpAngle
    /\ posedown_angle = DefaultDownAngle
    /\ results = <<DefaultDownAngle>>
    /\ angle = <<DefaultDownAngle>>
    /\ stage = <<"up">>

\* ---- C7 -----------------------------------------------------------------
\* C7: the number of slots never decreases in a call and always equals the
\* largest number of detections any single call has reported so far.
C7_SlotsAreMaxDetections ==
    /\ [](Len(count) = maxDet)
    /\ [][Len(count') >= Len(count)]_vars

C7_Witness ==
    /\ maxDet = 2
    /\ Len(count) = 2
    /\ Len(results) = 1

\* ---- C8 -----------------------------------------------------------------
\* C8: a call with a frame without detections can be made in every state
\* and leaves the three lists as they are.
C8_EmptyStep ==
    results' = <<>> => (count' = count /\ angle' = angle /\ stage' = stage)

C8_EmptyFrameNoOp ==
    [][C8_EmptyStep]_vars /\ [](ENABLED StartCounting(<<>>))

C8_Witness ==
    /\ results = <<>>
    /\ Len(count) = 2
    /\ count[1] >= 1
    /\ stage[2] # InitialStage

\* ---- C9 -----------------------------------------------------------------
\* C9: with an unrecognized pose_type every slot has count 0 and stage "-",
\* and every frame is accepted.
C9_UnrecognizedNeverCounts ==
    pose_type \notin RecognizedTypes =>
        /\ \A i \in 1..Len(count) :
              count[i] = InitialCount /\ stage[i] = InitialStage
        /\ \A res \in Frames : ENABLED StartCounting(res)

C9_Witness ==
    /\ pose_type \notin RecognizedTypes
    /\ Len(count) = 2
    /\ Len(results) = 2

RuleFires(a, s0) ==
    a < posedown_angle /\ (s0 = StartStage \/ a > poseup_angle)
RuleStage(a, s0) ==
    IF RuleFires(a, s0) THEN CountedStage
    ELSE IF a > poseup_angle THEN StartStage
    ELSE s0
RuleCount(a, s0, c0) == IF RuleFires(a, s0) THEN c0 + 1 ELSE c0
OldAngle(i) == IF i <= Len(angle) THEN angle[i] ELSE InitialAngle

\* ---- C11 ----------------------------------------------------------------
\* C11: a call with n >= 1 detections and m slots leaves max(m, n) slots;
\* slots past n keep angle, stage and count; slots up to n hold what one
\* update makes of the slot of the same index before the call, or of the
\* default (0, "-", 0) for a slot the call appended.
C11_Step ==
    Len(results') >= 1 =>
        LET n == Len(results')
            m == Len(count)
        IN  /\ Len(count') = (IF n > m THEN n ELSE m)
            /\ Len(angle') = Len(count')
            /\ Len(stage') = Len(count')
            /\ \A i \in (n + 1)..Len(count') :
                  /\ i <= m
                  /\ angle'[i] = angle[i]
                  /\ stage'[i] = stage[i]
                  /\ count'[i] = count[i]
            /\ \A i \in 1..n :
                  IF pose_type \in RecognizedTypes
                  THEN /\ stage'[i] = RuleStage(FedAngle(results', i),
                                                OldStage(i))
                       /\ count'[i] = RuleCount(FedAngle(results', i),
                                                OldStage(i), OldCount(i))
                  ELSE /\ angle'[i] = OldAngle(i)
                       /\ stage'[i] = OldStage(i)
                       /\ count'[i] = OldCount(i)

C11_GrowthAndStickiness == [][C11_Step]_vars

\* a second person appeared next to one who had already counted
C11_Witness ==
    /\ pose_type \in RecognizedTypes
    /\ Len(results) = 2
    /\ Len(count) = 2
    /\ count[1] = 2
    /\ stage[2] = StartStage
    /\ count[2] = 0
    /\ maxDet = 2
    /\ phase[2] = "above"

\* ---- C12 ----------------------------------------------------------------
\* C12: in a call with n >= 1 detections slot i (counted from 1) is updated
\* from the detection at position n + 1 - i of the frame: it stores that
\* detection's angle, and its count moves by at most one.
C12_Step ==
    pose_type \in RecognizedTypes =>
        \A i \in 1..Len(results') :
            /\ angle'[i] = EstimatePoseAngle(results'[Len(results') + 1 - i])
            /\ count'[i] - OldCount(i) \in {0, 1}

C12_ReverseOrder == [][C12_Step]_vars

C12_Witness ==
    /\ pose_type \in RecognizedTypes
    /\ results = <<80, 170>>
    /\ angle = <<170, 80>>

\* ---- C13 ----------------------------------------------------------------
\* C13: no call changes pose_type, kpts_to_check, poseup_angle or
\* posedown_angle.
C13_Step ==
    /\ pose_type' = pose_type
    /\ kpts_to_check' = kpts_to_check
    /\ poseup_angle' = poseup_angle
    /\ posedown_angle' = posedown_angle

C13_PolicyImmutable == [][C13_Step]_vars

C13_Witness ==
    /\ poseup_angle = DefaultDownAngle
    /\ posedown_angle = DefaultUpAngle
    /\ pose_type = "squat"
    /\ kpts_to_check = <<6, 8, 10>>
    /\ Len(count) = 2
    /\ count[1] = 2

\* ---- C14 ----------------------------------------------------------------
\* C14: recognized type, up >= down: an update adds 0 or 1 to the count, and
\* adds 1 exactly when the stage goes from the cycle's first stage to the
\* counted stage; so the count is the number of those stage changes, and a
\* slot in the counted stage has count >= 1.
C14_Step ==
    (pose_type \in RecognizedTypes /\ Ordered) =>
        \A i \in 1..Len(count') :
            /\ count'[i] - OldCount(i) \in {0, 1}
            /\ (count'[i] = OldCount(i) + 1) <=>
                   (OldStage(i) = StartStage /\ stage'[i] = CountedStage)

C14_Counted ==
    (pose_type \in RecognizedTypes /\ Ordered) =>
        \A i \in 1..Len(count) :
            /\ count[i] = trans[i]
            /\ stage[i] = CountedStage => count[i] >= 1

C14_CountWithTransition == [][C14_Step]_vars /\ []C14_Counted

C14_Witness ==
    /\ pose_type \in RecognizedTypes
    /\ Ordered
    /\ \E i \in 1..Len(count) :
          /\ trans[i] = 2
          /\ count[i] = 2
          /\ stage[i] = CountedStage

\* ---- C15 ----------------------------------------------------------------
\* C15: recognized type, up >= down: an update of a slot adds to its count
\* only if, since the slot's previous increment, an update with an angle
\* above up has happened; so two updates in a row never both add.
C15_Step ==
    (pose_type \in RecognizedTypes /\ Ordered) =>
        \A i \in 1..Len(count) :
            count'[i] > count[i] => since[i] # "counted"

C15_NoBackToBack == [][C15_Step]_vars

\* a slot that counted, was stretched again and counted a second time
C15_Witness ==
    /\ pose_type \in RecognizedTypes
    /\ Ordered
    /\ \E i \in 1..Len(count) :
          /\ since[i] = "counted"
          /\ count[i] = 2
          /\ full[i] = 1

\* ---- C16 ----------------------------------------------------------------
\* C16: the count, angle and stage lists always have the same length.
C16_ListsAligned ==
    /\ Len(count) = Len(angle)
    /\ Len(angle) = Len(stage)

\* the lists grew twice and then saw an empty frame
C16_Witness ==
    /\ Len(count) = 2
    /\ Len(angle) = 2
    /\ Len(stage) = 2
    /\ results = <<>>
    /\ count[1] >= 1
    /\ stage[2] # InitialStage
    /\ phase[2] = "other"

\* ---- C17 ----------------------------------------------------------------
\* C17: every stage is "up", "down" or "-"; a slot showing "-" has count 0;
\* a slot that shows "up" or "down" never shows "-" again.
C17_State ==
    \A i \in 1..Len(stage) :
        /\ stage[i] \in {"up", "down", InitialStage}
        /\ stage[i] = InitialStage => count[i] = 0

C17_Step ==
    \A i \in 1..Len(stage) :
        stage[i] # InitialStage =>
            (i <= Len(stage') /\ stage'[i] # InitialStage)

C17_UnknownIsInitialOnly == []C17_State /\ [][C17_Step]_vars

\* a slot that was bent below down before it was ever stretched above up
C17_Witness ==
    /\ pose_type \in RecognizedTypes
    /\ \E i \in 1..Len(stage) :
          /\ stage[i] = InitialStage
          /\ everBelow[i]
          /\ count[i] = 0
          /\ angle[i] = 80
====
